---- MODULE Spec2Model ----
(***************************************************************************)
(* Shamir secret sharing of BIP-39 mnemonics over GF(2^8).                 *)
(*                                                                         *)
(* The module models the library (field arithmetic, polynomial, the        *)
(* ShamirSecretSharing implementations for gf256, FieldArray<gf256, N> and *)
(* Bip39Secret, the bit codec and the mnemonic codec) as operators, and    *)
(* their use as two state machines: Spec drives the library trait          *)
(* (split, then reconstruct on a caller-chosen share list), SpecCli drives *)
(* the command line front-end of main.rs step by step.                     *)
(***************************************************************************)
EXTENDS Integers, Sequences, FiniteSets, TLC

(***************************************************************************)
(* Bounds of the model.                                                    *)
(***************************************************************************)
\* Largest number of shares n the trait-level machine splits into.
MaxN == 3
\* Largest n for the Bip39Secret instance (32-byte arrays are costly).
MaxBipN == 2
\* Length N of the FieldArray<gf256, N> instance.
ArrayLen == 2
\* Secret bytes are sampled from the MaxSample lowest bytes and 255.
MaxSample == 2
\* Seeds of the random source: start and step of its output stream.
MaxSeedStart == 1
MaxSeedStep == 1
\* The codec machine reads the entropies 0..MaxEntropy of its sample.
MaxEntropy == 39
\* The texts the codec machine reads start at the codes 0..MaxCodeStart (and
\* at the last code) and step through the dictionary by 0..MaxCodeStep strides.
MaxCodeStart == 2
MaxCodeStep == 2
\* The bit sequences handed to bits_to_bytes have up to MaxBits bits.
MaxBits == 9

\* The sequence a function over 1..k stands for, with its elements evaluated.
collect(f) == f \o <<>>

(***************************************************************************)
(* GF(2^8), the gf256 crate's default field: polynomial 0x11d.             *)
(***************************************************************************)
Bytes == 0..255

POLYNOMIAL == 285

RECURSIVE xor_bits(_, _)
xor_bits(a, b) ==
    IF a = 0 THEN b
    ELSE IF b = 0 THEN a
    ELSE ((a + b) % 2) + 2 * xor_bits(a \div 2, b \div 2)

\* The tables are evaluated once; gf_add and gf_mul read them.
XorTable == [a \in Bytes |-> [b \in Bytes |-> xor_bits(a, b)]]

\* Carry-less multiplication reduced modulo POLYNOMIAL (shift and add); bit 8
\* of a shifted operand cancels against bit 8 of POLYNOMIAL.
RECURSIVE clmul_reduce(_, _)
clmul_reduce(a, b) ==
    IF b = 0 THEN 0
    ELSE LET shifted == IF 2 * a >= 256
                            THEN XorTable[2 * a - 256][POLYNOMIAL - 256]
                            ELSE 2 * a
             rest == clmul_reduce(shifted, b \div 2)
         IN  IF b % 2 = 1 THEN XorTable[a][rest] ELSE rest

MulTable == [a \in Bytes |-> [b \in Bytes |-> clmul_reduce(a, b)]]

\* Addition of the bytes as integers, wrapping at 256.
wrapping_add(a, b) == (a + b) % 256

\* gf256 + gf256 (and +=): bitwise xor.
gf_add(a, b) == XorTable[a][b]

\* gf256 * gf256 (and *=).
gf_mul(a, b) == MulTable[a][b]

\* The multiplicative inverse of a non-zero element.
RecipTable == [b \in 1..255 |-> CHOOSE r \in 1..255 : MulTable[b][r] = 1]

gf_recip(b) == RecipTable[b]

\* gf256 / gf256 panics on a zero divisor; the caller tests DivPanics first.
DivPanics(b) == b = 0

gf_div(a, b) == gf_mul(a, gf_recip(b))

\* impl Zero for gf256
gf256_zero == 0

(***************************************************************************)
(* The random source.  A seed fixes the whole output stream; the stream is *)
(* consumed in order, pos counting the draws made so far.                  *)
(***************************************************************************)
Seeds == [start : 0..MaxSeedStart, step : 0..MaxSeedStep]

NewRng(seed) == [seed |-> seed, pos |-> 0]

\* The raw word the source returns at its current position.
next_word(rng) == (251 * rng.seed.start + 83 * rng.seed.step * rng.pos) % 65536

\* rng.gen_range(low..=high)
gen_range(rng, low, high) == low + (next_word(rng) % (high - low + 1))

Advance(rng) == [rng EXCEPT !.pos = @ + 1]

\* Sampling from the whole field would start at its zero.
whole_field_low == gf256_zero

\* impl Random for gf256: gen_range(1..=255), a non-zero element.
gf256_random_low == 1

gf256_random_high == 255

gf256_random(rng) == gen_range(rng, gf256_random_low, gf256_random_high)

(***************************************************************************)
(* ShamirPolynomial                                                        *)
(***************************************************************************)
\* random(secret, degree, rng): the coefficients, low degree first, and the
\* source after degree draws.
RECURSIVE ShamirPolynomial_random_loop(_, _, _)
ShamirPolynomial_random_loop(f, todo, rng) ==
    IF todo = 0 THEN [f |-> f, rng |-> rng]
    ELSE ShamirPolynomial_random_loop(Append(f, gf256_random(rng)), todo - 1, Advance(rng))

\* A polynomial with one coefficient more than its degree asks for.
random_one_more(secret, degree, rng) ==
    ShamirPolynomial_random_loop(<<secret>>, degree + 1, rng)

\* A polynomial that is one coefficient short.
random_short(secret, degree, rng) ==
    ShamirPolynomial_random_loop(<<secret>>, IF degree > 0 THEN degree - 1 ELSE 0, rng)

ShamirPolynomial_random(secret, degree, rng) ==
    ShamirPolynomial_random_loop(<<secret>>, degree, rng)

\* Horner's method over the coefficients in their stored order.
RECURSIVE evaluate_forward_loop(_, _, _, _)
evaluate_forward_loop(f, x, i, y) ==
    IF i > Len(f) THEN y
    ELSE evaluate_forward_loop(f, x, i + 1, gf_add(gf_mul(y, x), f[i]))

evaluate_forward(f, x) == evaluate_forward_loop(f, x, 1, gf256_zero)

\* evaluate(x): Horner's method over the coefficients in reverse.
RECURSIVE ShamirPolynomial_evaluate_loop(_, _, _, _)
ShamirPolynomial_evaluate_loop(f, x, i, y) ==
    IF i = 0 THEN y
    ELSE ShamirPolynomial_evaluate_loop(f, x, i - 1, gf_add(gf_mul(y, x), f[i]))

ShamirPolynomial_evaluate(f, x) ==
    ShamirPolynomial_evaluate_loop(f, x, Len(f), gf256_zero)

(***************************************************************************)
(* ShamirShare and impl ShamirSecretSharing for gf256                      *)
(***************************************************************************)
ShamirShare_new(id, secret) == [id |-> id, secret |-> secret]

\* Assertions that look at n and at t, but not at the two together.
panics_on_zero(n, t) == ~(n > 0) \/ ~(t > 0)

\* The three assertions that open gf256::split.
SplitPanics(n, t) == ~(n > 0) \/ ~(t > 0) \/ ~(t <= n)

\* gf256::split: the shares (1, f(1)) .. (n, f(n)) and the source afterwards.
gf256_split(secret, n, t, rng) ==
    LET polynomial == ShamirPolynomial_random(secret, t - 1, rng)
    IN  [shares |-> collect([id \in 1..n |->
                        ShamirShare_new(id, ShamirPolynomial_evaluate(polynomial.f, id))]),
         rng |-> polynomial.rng]

\* gf256::reconstruct panics when a quotient has a zero divisor.
gf256_reconstruct_panics(shares) ==
    \E i, j \in 1..Len(shares) :
        i # j /\ DivPanics(gf_add(shares[i].id, shares[j].id))

\* The inner loop: li, the product over j # i of x_j / (x_i + x_j).
RECURSIVE lagrange_li(_, _, _, _)
lagrange_li(shares, i, j, li) ==
    IF j > Len(shares) THEN li
    ELSE IF i # j
         THEN lagrange_li(shares, i, j + 1,
                  gf_mul(li, gf_div(shares[j].id,
                                    gf_add(shares[i].id, shares[j].id))))
         ELSE lagrange_li(shares, i, j + 1, li)

\* The outer loop: y += li * y0 for every share.
RECURSIVE gf256_reconstruct_loop(_, _, _)
gf256_reconstruct_loop(shares, i, y) ==
    IF i > Len(shares) THEN y
    ELSE gf256_reconstruct_loop(shares, i + 1,
             gf_add(y, gf_mul(lagrange_li(shares, i, 1, 1), shares[i].secret)))

gf256_reconstruct(shares) == gf256_reconstruct_loop(shares, 1, 0)

(***************************************************************************)
(* FieldArray<gf256, N> and impl ShamirSecretSharing for it                *)
(***************************************************************************)
\* A loop that hands every element the source as it was at the start.
RECURSIVE split_loop_one_source(_, _, _, _, _, _, _)
split_loop_one_source(array, first, last, n, t, rng, secrets) ==
    IF first > last THEN [secrets |-> secrets, rng |-> rng]
    ELSE IF first = last
    THEN LET element == gf256_split(array[first], n, t, rng)
         IN  [secrets |-> collect([id \in 1..n |->
                              Append(secrets[id], element.shares[id].secret)]),
              rng |-> rng]
    ELSE LET middle == (first + last) \div 2
         IN  CHOOSE done \in
                 {split_loop_one_source(array, middle + 1, last, n, t, half.rng, half.secrets) :
                     half \in {split_loop_one_source(array, first, middle, n, t, rng, secrets)}} : TRUE

\* The iterations first..last of the loop over the elements: each element is
\* split with the source the previous split left, and share id's value is
\* pushed onto secrets[id].  The iterations up to the middle are evaluated
\* first (half), and the others go on from the source and the map they left.
RECURSIVE FieldArray_split_loop(_, _, _, _, _, _, _)
FieldArray_split_loop(array, first, last, n, t, rng, secrets) ==
    IF first > last THEN [secrets |-> secrets, rng |-> rng]
    ELSE IF first = last
    THEN LET element == gf256_split(array[first], n, t, rng)
         IN  [secrets |-> collect([id \in 1..n |->
                              Append(secrets[id], element.shares[id].secret)]),
              rng |-> element.rng]
    ELSE LET middle == (first + last) \div 2
         IN  CHOOSE done \in
                 {FieldArray_split_loop(array, middle + 1, last, n, t, half.rng, half.secrets) :
                     half \in {FieldArray_split_loop(array, first, middle, n, t, rng, secrets)}} : TRUE

\* shares.sort_by(|a, b| a.id.cmp(&b.id)): a stable insertion sort.
RECURSIVE insert_by_id(_, _)
insert_by_id(sorted, share) ==
    IF sorted = <<>> THEN <<share>>
    ELSE IF sorted[Len(sorted)].id <= share.id THEN Append(sorted, share)
    ELSE Append(insert_by_id(SubSeq(sorted, 1, Len(sorted) - 1), share),
                sorted[Len(sorted)])

RECURSIVE sort_by_id_loop(_, _, _)
sort_by_id_loop(shares, i, sorted) ==
    IF i > Len(shares) THEN sorted
    ELSE sort_by_id_loop(shares, i + 1, insert_by_id(sorted, shares[i]))

unsorted(shares) == shares

sort_by_id(shares) == sort_by_id_loop(shares, 1, <<>>)

\* FieldArray::split.  order is the order in which the HashMap yields its
\* n entries; the collected shares are sorted by id before they are returned.
FieldArray_split(array, n, t, rng, order) ==
    LET filled == FieldArray_split_loop(array, 1, Len(array), n, t, rng,
                                        collect([id \in 1..n |-> <<>>]))
        collected == collect([i \in 1..n |->
                         ShamirShare_new(order[i], filled.secrets[order[i]])])
    IN  [shares |-> sort_by_id(collected), rng |-> filled.rng]

\* The shares of element i, built from the shares of the array.
element_shares(shares, i) ==
    collect([s \in 1..Len(shares) |-> ShamirShare_new(shares[s].id, shares[s].secret[i])])

\* FieldArray::reconstruct on arrays of length len, element by element.
FieldArray_reconstruct(shares, len) ==
    collect([i \in 1..len |-> gf256_reconstruct(element_shares(shares, i))])

(***************************************************************************)
(* The operations the routines execute.  Next to the value it computes,    *)
(* each routine has the sequence of the steps it takes to compute it: an   *)
(* entry per assertion, draw, field operation and constructor call, in the *)
(* order of execution, each with the id its course depends on, if any.     *)
(***************************************************************************)
\* A step whose course depends on no operand.
plain_step(name) == <<name, 0>>

\* A loop body that leaves the multiplication out when y is zero.
evaluate_step_skipping_zero(y, x, c) ==
    IF y = gf256_zero THEN <<plain_step("add")>> ELSE <<plain_step("mul"), plain_step("add")>>

\* One turn of evaluate's loop, y = y * x.clone() + c: whatever y, x and c.
evaluate_step(y, x, c) == <<plain_step("mul"), plain_step("add")>>

RECURSIVE evaluate_steps_loop(_, _, _, _)
evaluate_steps_loop(f, x, i, y) ==
    IF i = 0 THEN <<>>
    ELSE evaluate_step(y, x, f[i])
             \o evaluate_steps_loop(f, x, i - 1, gf_add(gf_mul(y, x), f[i]))

\* ShamirPolynomial::evaluate: T::zero(), then a turn per coefficient.
evaluate_steps(f, x) ==
    <<plain_step("zero")>> \o evaluate_steps_loop(f, x, Len(f), gf256_zero)

\* ShamirPolynomial::random: a draw per turn of `for _ in 0..degree`.
random_steps(degree) == [d \in 1..degree |-> plain_step("random")]

\* The map over 1..=n in gf256::split: evaluate, then ShamirShare::new.
RECURSIVE gf256_split_steps_loop(_, _, _)
gf256_split_steps_loop(f, id, n) ==
    IF id > n THEN <<>>
    ELSE evaluate_steps(f, id) \o <<plain_step("new")>> \o gf256_split_steps_loop(f, id + 1, n)

\* gf256::split: the assertions up to the first that fails, then the rest.
gf256_split_steps(secret, n, t, rng) ==
    IF ~(n > 0) THEN <<plain_step("assert failed")>>
    ELSE IF ~(t > 0) THEN <<plain_step("assert"), plain_step("assert failed")>>
    ELSE IF ~(t <= n) THEN <<plain_step("assert"), plain_step("assert"), plain_step("assert failed")>>
    ELSE <<plain_step("assert"), plain_step("assert"), plain_step("assert")>>
             \o random_steps(t - 1)
             \o gf256_split_steps_loop(ShamirPolynomial_random(secret, t - 1, rng).f, 1, n)

\* The inner loop of gf256::reconstruct from share j on: for j # i the sum,
\* the quotient and the product; a quotient with a zero divisor ends the run.
RECURSIVE lagrange_li_steps(_, _, _)
lagrange_li_steps(shares, i, j) ==
    IF j > Len(shares) THEN [steps |-> <<>>, panicked |-> FALSE]
    ELSE IF i # j
         THEN IF DivPanics(gf_add(shares[i].id, shares[j].id))
              THEN [steps |-> <<plain_step("add"), plain_step("div panicked")>>, panicked |-> TRUE]
              ELSE LET rest == lagrange_li_steps(shares, i, j + 1)
                   IN  [steps |-> <<plain_step("add"), plain_step("div"), plain_step("mul")>> \o rest.steps,
                        panicked |-> rest.panicked]
         ELSE lagrange_li_steps(shares, i, j + 1)

\* The outer loop of gf256::reconstruct from share i on.
RECURSIVE gf256_reconstruct_steps_loop(_, _)
gf256_reconstruct_steps_loop(shares, i) ==
    IF i > Len(shares) THEN [steps |-> <<>>, panicked |-> FALSE]
    ELSE LET inner == lagrange_li_steps(shares, i, 1)
         IN  IF inner.panicked THEN inner
             ELSE LET rest == gf256_reconstruct_steps_loop(shares, i + 1)
                  IN  [steps |-> inner.steps \o <<plain_step("mul"), plain_step("add")>> \o rest.steps,
                       panicked |-> rest.panicked]

gf256_reconstruct_steps(shares) == gf256_reconstruct_steps_loop(shares, 1).steps

\* The loop over the elements in FieldArray::split: the split of the
\* element, then an entry(id) and a push per share.
RECURSIVE FieldArray_split_steps_loop(_, _, _, _, _)
FieldArray_split_steps_loop(array, k, n, t, rng) ==
    IF k > Len(array) THEN <<>>
    ELSE gf256_split_steps(array[k], n, t, rng)
             \o [i \in 1..(2 * n) |->
                    IF i % 2 = 1 THEN <<"entry", (i + 1) \div 2>> ELSE plain_step("push")]
             \o FieldArray_split_steps_loop(array, k + 1, n, t,
                                            gf256_split(array[k], n, t, rng).rng)

\* FieldArray::split: the loop, a try_into and a new per entry in the order
\* the HashMap yields them, and the sort of the ids in that order.
FieldArray_split_steps(array, n, t, rng, order) ==
    IF SplitPanics(n, t) THEN gf256_split_steps(array[1], n, t, rng)
    ELSE FieldArray_split_steps_loop(array, 1, n, t, rng)
             \o [i \in 1..(2 * n) |->
                    IF i % 2 = 1 THEN plain_step("try_into") ELSE <<"new", order[i \div 2]>>]
             \o [i \in 1..n |-> <<"sort_by", order[i]>>]

\* FieldArray::reconstruct from element i on: a new per share, then the
\* reconstruction of the element; a panic ends the run.
RECURSIVE FieldArray_reconstruct_steps_loop(_, _, _)
FieldArray_reconstruct_steps_loop(shares, i, len) ==
    IF i > len THEN <<>>
    ELSE LET element == gf256_reconstruct_steps_loop(element_shares(shares, i), 1)
             made == [s \in 1..Len(shares) |-> plain_step("new")]
         IN  IF element.panicked THEN made \o element.steps
             ELSE made \o element.steps
                      \o FieldArray_reconstruct_steps_loop(shares, i + 1, len)

FieldArray_reconstruct_steps(shares, len) ==
    FieldArray_reconstruct_steps_loop(shares, 1, len)

(***************************************************************************)
(* utils.rs: the bit codec                                                 *)
(***************************************************************************)
RECURSIVE shift_left(_, _)
shift_left(v, e) == IF e = 0 THEN v ELSE shift_left(2 * v, e - 1)

\* 1 << e for the shifts the codec makes, evaluated once.
Pow2Table == collect([e \in 1..25 |-> shift_left(1, e - 1)])

pow2(e) == Pow2Table[e + 1]

\* bytes_to_bits: bit 7 of a byte first, bit 0 last.
bytes_to_bits(bytes) ==
    collect([k \in 1..(8 * Len(bytes)) |->
        (bytes[((k - 1) \div 8) + 1] \div pow2(7 - ((k - 1) % 8))) % 2 = 1])

\* A fold that shifts the accumulator: (acc << 1) | (b as u8).
RECURSIVE fold_chunk_shifting(_, _, _)
fold_chunk_shifting(chunk, i, acc) ==
    IF i > Len(chunk) THEN acc
    ELSE fold_chunk_shifting(chunk, i + 1, 2 * acc + (IF chunk[i] THEN 1 ELSE 0))

\* The fold over one chunk: acc | (b as u8) << (7 - i), i counting from 0.
RECURSIVE fold_chunk(_, _, _)
fold_chunk(chunk, i, acc) ==
    IF i > Len(chunk) THEN acc
    ELSE fold_chunk(chunk, i + 1,
             acc + (IF chunk[i] THEN pow2(7 - (i - 1)) ELSE 0))

\* bits_to_bytes: chunks of 8 bits, the last one possibly shorter.
bits_to_bytes(bits) ==
    collect([c \in 1..((Len(bits) + 7) \div 8) |->
        LET first == 8 * (c - 1) + 1
            last == IF 8 * c <= Len(bits) THEN 8 * c ELSE Len(bits)
        IN  fold_chunk(SubSeq(bits, first, last), 1, 0)])

(***************************************************************************)
(* bip39.rs: parameters of the 24-word variant                             *)
(***************************************************************************)
DICTIONARY_INDICES_BITS == 11

MNEMONIC_WORDS == 24

DICTIONARY_WORDS == 2 * pow2(DICTIONARY_INDICES_BITS - 1)

CHECKSUM_BITS == (MNEMONIC_WORDS * DICTIONARY_INDICES_BITS) \div 33

ENTROPY_BITS == CHECKSUM_BITS * 32

ENTROPY_BYTES == ENTROPY_BITS \div 8

\* Size in bytes of usize on the 64-bit targets the tool is built for.
USIZE_BYTES == 8

Ok(value) == [ok |-> TRUE, value |-> value]

Err(message) == [ok |-> FALSE, error |-> message]

(***************************************************************************)
(* Bip39Dictionary.  A word is a token; a mnemonic string is the sequence  *)
(* of the tokens that split_whitespace yields from it.                     *)
(***************************************************************************)
\* The word on line k (counted from 0) of the loaded dictionary file: 2048
\* pairwise distinct tokens.
WordOnLine(k) == 10000 + ((k * 677 + 5) % 2048)

StandardDictionary ==
    [words |-> collect([k \in 1..DICTIONARY_WORDS |-> WordOnLine(k - 1)])]

\* index.to_be_bytes(): bytes above the fourth lowest are 0 for every index
\* a dictionary position can take.
to_be_bytes(index) ==
    collect([k \in 1..USIZE_BYTES |->
        IF USIZE_BYTES - k >= 4 THEN 0
        ELSE (index \div pow2(8 * (USIZE_BYTES - k))) % 256])

\* usize::from_be_bytes(bytes)
RECURSIVE from_be_bytes_loop(_, _, _)
from_be_bytes_loop(bytes, k, acc) ==
    IF k > Len(bytes) THEN acc
    ELSE from_be_bytes_loop(bytes, k + 1, acc * 256 + bytes[k])

from_be_bytes(bytes) == from_be_bytes_loop(bytes, 1, 0)

\* The first match, counted from 1.
position_from_one(words, word) ==
    IF \E k \in 1..Len(words) : words[k] = word
    THEN Ok(CHOOSE k \in 1..Len(words) :
                /\ words[k] = word
                /\ \A j \in 1..(k - 1) : words[j] # word)
    ELSE Err("Invalid BIP-39 word in mnemonic")

\* self.words.iter().position(|w| w == word): the first match, counted from 0.
position(words, word) ==
    IF \E k \in 1..Len(words) : words[k] = word
    THEN Ok((CHOOSE k \in 1..Len(words) :
                /\ words[k] = word
                /\ \A j \in 1..(k - 1) : words[j] # word) - 1)
    ELSE Err("Invalid BIP-39 word in mnemonic")

\* The first DICTIONARY_INDICES_BITS bits of the index instead of the last.
bits_from_word_head(dictionary, word) ==
    LET index == position(dictionary.words, word)
    IN  IF ~index.ok THEN index
        ELSE Ok(SubSeq(bytes_to_bits(to_be_bytes(index.value)), 1, DICTIONARY_INDICES_BITS))

\* bits_from_word: the last DICTIONARY_INDICES_BITS bits of the index.
bits_from_word(dictionary, word) ==
    LET index == position(dictionary.words, word)
    IN  IF ~index.ok THEN index
        ELSE LET bits == bytes_to_bits(to_be_bytes(index.value))
             IN  Ok(SubSeq(bits, Len(bits) - DICTIONARY_INDICES_BITS + 1, Len(bits)))

\* word_from_bits: the bits overwrite the tail of a zeroed usize.
word_from_bits(dictionary, bits) ==
    LET zeroed == bytes_to_bits(to_be_bytes(0))
        length == Len(zeroed)
        extended == collect([k \in 1..length |->
                        IF k > length - DICTIONARY_INDICES_BITS
                        THEN bits[k - (length - DICTIONARY_INDICES_BITS)]
                        ELSE zeroed[k]])
        index == from_be_bytes(bits_to_bytes(extended))
    IN  dictionary.words[index + 1]

(***************************************************************************)
(* Entropy, Checksum, Bip39Secret                                          *)
(***************************************************************************)
\* Entropy::to_bytes
Entropy_to_bytes(entropy) == bits_to_bytes(entropy)

\* impl From<FieldArray<T, ENTROPY_BYTES>> for Entropy
Entropy_from_array(array) == bytes_to_bits(array)

\* impl From<&Entropy> for FieldArray<T, ENTROPY_BYTES>
FieldArray_from_entropy(entropy) == Entropy_to_bytes(entropy)

\* Sha256::digest.  The digest function is abstracted: a deterministic mix of
\* all the input bytes in which changing any one byte changes the first
\* digest byte.  Only the first CHECKSUM_BITS bits of the digest are read.
RECURSIVE digest_mix(_, _, _, _)
digest_mix(bytes, first, last, h) ==
    IF first > last THEN h
    ELSE IF first = last THEN (33 * h + bytes[first] + first) % 256
    ELSE LET middle == (first + last) \div 2
         IN  CHOOSE done \in {digest_mix(bytes, middle + 1, last, half) :
                                 half \in {digest_mix(bytes, first, middle, h)}} : TRUE

Sha256_digest(bytes) ==
    LET h == digest_mix(bytes, 1, Len(bytes), 106)
    IN  collect([j \in 1..32 |-> (h + 57 * (j - 1)) % 256])

\* impl From<&Entropy> for Checksum
Checksum_from(entropy) ==
    LET digest == Sha256_digest(Entropy_to_bytes(entropy))
        bits == bytes_to_bits(digest)
    IN  SubSeq(bits, 1, CHECKSUM_BITS)

\* A secret that keeps a fixed checksum whatever its entropy.
Bip39Secret_from_stale(entropy) ==
    [entropy |-> entropy, checksum |-> [k \in 1..CHECKSUM_BITS |-> FALSE]]

\* impl From<Entropy> for Bip39Secret: the checksum is computed here.
Bip39Secret_from(entropy) ==
    [entropy |-> entropy, checksum |-> Checksum_from(entropy)]

\* A validation that accepts every secret.
is_valid_always(secret) == Ok("valid")

\* Bip39Secret::is_valid
Bip39Secret_is_valid(secret) ==
    IF secret.checksum = Checksum_from(secret.entropy)
    THEN Ok("valid") ELSE Err("Invalid checksum")

\* Bip39Secret::from_mnemonic
Bip39Secret_from_mnemonic(mnemonic, dictionary) ==
    LET words == mnemonic
        length == Len(words)
    IN  IF length # MNEMONIC_WORDS THEN Err("Invalid mnemonic length")
        ELSE LET looked == collect([w \in 1..length |->
                                bits_from_word(dictionary, words[w])])
             IN  IF \E w \in 1..length : ~looked[w].ok
                 THEN looked[CHOOSE w \in 1..length :
                                 /\ ~looked[w].ok
                                 /\ \A v \in 1..(w - 1) : looked[v].ok]
                 ELSE LET bits == collect([b \in 1..(length * DICTIONARY_INDICES_BITS) |->
                                      looked[((b - 1) \div DICTIONARY_INDICES_BITS) + 1]
                                          .value[((b - 1) % DICTIONARY_INDICES_BITS) + 1]])
                      IN  Ok([entropy |-> SubSeq(bits, 1, ENTROPY_BITS),
                              checksum |-> SubSeq(bits, ENTROPY_BITS + 1, Len(bits))])

\* Bip39Secret::to_mnemonic: the words of the chunks of entropy ++ checksum.
Bip39Secret_to_mnemonic(secret, dictionary) ==
    LET bits == secret.entropy \o secret.checksum
    IN  collect([w \in 1..(Len(bits) \div DICTIONARY_INDICES_BITS) |->
            word_from_bits(dictionary,
                SubSeq(bits, DICTIONARY_INDICES_BITS * (w - 1) + 1,
                             DICTIONARY_INDICES_BITS * w))])

\* impl ShamirSecretSharing for Bip39Secret
Bip39Secret_split(secret, n, t, rng, order) ==
    LET split == FieldArray_split(FieldArray_from_entropy(secret.entropy), n, t, rng, order)
    IN  [shares |-> collect([i \in 1..Len(split.shares) |->
                        ShamirShare_new(split.shares[i].id,
                            Bip39Secret_from(Entropy_from_array(split.shares[i].secret)))]),
         rng |-> split.rng]

Bip39Secret_reconstruct(shares) ==
    LET array_shares == collect([i \in 1..Len(shares) |->
                            ShamirShare_new(shares[i].id,
                                FieldArray_from_entropy(shares[i].secret.entropy))])
        array == FieldArray_reconstruct(array_shares, ENTROPY_BYTES)
    IN  Bip39Secret_from(Entropy_from_array(array))

\* Bip39Share
Bip39Share_is_valid(share) == Bip39Secret_is_valid(share.secret)

Bip39Share_from_mnemonic(id, mnemonic, dictionary) ==
    LET secret == Bip39Secret_from_mnemonic(mnemonic, dictionary)
    IN  IF secret.ok THEN Ok(ShamirShare_new(id, secret.value)) ELSE secret

Bip39Share_to_mnemonic(share, dictionary) ==
    Bip39Secret_to_mnemonic(share.secret, dictionary)

(***************************************************************************)
(* main.rs: the command line arguments.  A string is the sequence of the   *)
(* tokens its separators delimit; a share string starts with its index.    *)
(***************************************************************************)
\* ShareString::from_str: the first part parsed as u8, the rest the secret.
ShareString_from_str(s) ==
    IF Head(s) \in 0..255
    THEN Ok([index |-> Head(s), secret |-> Tail(s)])
    ELSE Err("ParseIntError")

\* The three ensure! lines that open Operation::Split.
EnsureFails(n, t) == ~(n > 0) \/ ~(t > 0) \/ ~(t <= n)

\* shares.into_iter().map(from_mnemonic).collect::<Result<Vec<_>>>(): every
\* share, or the first error.
shares_from_mnemonics(list, dictionary) ==
    LET results == collect([i \in 1..Len(list) |->
                       Bip39Share_from_mnemonic(list[i].index, list[i].secret, dictionary)])
    IN  IF \E i \in 1..Len(list) : ~results[i].ok
        THEN results[CHOOSE i \in 1..Len(list) :
                        /\ ~results[i].ok
                        /\ \A j \in 1..(i - 1) : results[j].ok]
        ELSE Ok(collect([i \in 1..Len(list) |-> results[i].value]))

\* A validation that looks at the first share only.
first_share_is_valid(list) ==
    IF list = <<>> THEN Ok("valid") ELSE Bip39Share_is_valid(list[1])

\* for share in &shares { share.is_valid()?; }: the first error, if any.
shares_are_valid(list) ==
    IF \E i \in 1..Len(list) : ~Bip39Share_is_valid(list[i]).ok
    THEN Err("Invalid checksum")
    ELSE Ok("valid")

\* The lines Operation::Split prints: a heading and a mnemonic per share,
\* then the closing sentence.
split_printout(list, n, t, dictionary) ==
    collect([i \in 1..Len(list) |->
                [heading |-> <<"Share", i, n>>,
                 mnemonic |-> Bip39Share_to_mnemonic(list[i], dictionary)]])
        \o <<[heading |-> <<"The secret can be reconstructed from any", t, n>>,
              mnemonic |-> <<>>]>>

(***************************************************************************)
(* The machines.  A behaviour is either one use of the trait (one secret   *)
(* of one of the three types that implement ShamirSecretSharing is split   *)
(* once, and reconstruct is then called once on a share list the caller    *)
(* assembles), or one run of main, statement by statement.                 *)
(***************************************************************************)
VARIABLES
    kind,       \* the implementing type: "gf256", "FieldArray", "Bip39Secret";
                \* "main" in a run of the command line tool
    secret,     \* the value split is called on
    rng,        \* the random source handed to split
    params,     \* the (n, t) split was called with
    shares,     \* the Vec split returned
    input,      \* the slice handed to reconstruct
    output,     \* what reconstruct returned
    phase,      \* "new", "split", "reconstructed", or "panicked"
    argv,       \* main: the command line
    operation,  \* main: args.operation as clap parsed it
    pc,         \* main: the statement to run next
    loaded,     \* main: the secret and the shares it holds
    stdout,     \* main: what was printed
    exit,       \* main: "running", "success", "failure" or "panic"
    codec       \* the mnemonic codec applied to one entropy, stage by stage

traitVars == <<kind, secret, rng, params, shares, input, output, phase>>

cliVars == <<argv, operation, pc, loaded, stdout, exit>>

vars == <<traitVars, cliVars, codec>>

Kinds == {"gf256", "FieldArray", "Bip39Secret"}

SampleBytes == {b \in Bytes : b < MaxSample \/ b = 255}

\* An array of len bytes that starts at b and steps through the field.
SampleArray(b, len) == collect([k \in 1..len |-> (b + 85 * (k - 1)) % 256])

Secrets(k) ==
    CASE k = "gf256" -> SampleBytes
      [] k = "FieldArray" -> {SampleArray(b, ArrayLen) : b \in SampleBytes}
      [] k = "Bip39Secret" ->
            {Bip39Secret_from(Entropy_from_array(SampleArray(b, ENTROPY_BYTES))) :
                b \in SampleBytes}

MaxShares(k) == IF k = "Bip39Secret" THEN MaxBipN ELSE MaxN

NoParams == [n |-> 0, t |-> 0]

NoOutput == [returned |-> FALSE]

Returned(value) == [returned |-> TRUE, value |-> value]

\* The orders in which a HashMap with keys 1..n can yield its entries.
IterationOrders(n) ==
    {order \in [1..n -> 1..n] : \A i, j \in 1..n : i # j => order[i] # order[j]}

\* T::split for the three types; order matters to the array types only.
split(k, s, n, t, r, order) ==
    CASE k = "gf256" -> gf256_split(s, n, t, r)
      [] k = "FieldArray" -> FieldArray_split(s, n, t, r, order)
      [] k = "Bip39Secret" -> Bip39Secret_split(s, n, t, r, order)

\* T::reconstruct for the three types.
reconstruct(k, list) ==
    CASE k = "gf256" -> gf256_reconstruct(list)
      [] k = "FieldArray" -> FieldArray_reconstruct(list, ArrayLen)
      [] k = "Bip39Secret" -> Bip39Secret_reconstruct(list)

\* The id of every share of a list.
Ids(list) == [i \in 1..Len(list) |-> list[i].id]

\* Every list of pairwise different entries of all, in every order.
Arrangements(all) ==
    {[i \in 1..Len(pick) |-> all[pick[i]]] :
        pick \in {p \in UNION {[1..len -> 1..Len(all)] : len \in 1..Len(all)} :
                    \A i, j \in 1..Len(p) : i # j => p[i] # p[j]}}

(***************************************************************************)
(* The command lines of the model.                                         *)
(***************************************************************************)
\* A token that is no word of the dictionary.
UnknownWord == WordOnLine(0) + DICTIONARY_WORDS

\* A text that does not parse as u8.
NotAByte == Cardinality(Bytes)

\* The secret with the first bit of its declared checksum flipped.
Corrupt(s) == [s EXCEPT !.checksum[1] = ~@]

\* The mnemonics a user may type for a secret: the right one, one whose last
\* word declares another checksum, one a word short, one with a foreign word.
TypedMnemonics(s) ==
    LET mnemonic == Bip39Secret_to_mnemonic(s, StandardDictionary)
    IN  {mnemonic,
         Bip39Secret_to_mnemonic(Corrupt(s), StandardDictionary),
         SubSeq(mnemonic, 1, Len(mnemonic) - 1),
         [mnemonic EXCEPT ![1] = UnknownWord]}

SecretMnemonics == UNION {TypedMnemonics(s) : s \in Secrets("Bip39Secret")}

\* The shares of one secret, as a user holds them: MaxBipN out of MaxBipN.
HeldShares ==
    Bip39Secret_split(
        Bip39Secret_from(Entropy_from_array(SampleArray(1, ENTROPY_BYTES))),
        MaxBipN, MaxBipN, NewRng([start |-> 1, step |-> 1]),
        [i \in 1..MaxBipN |-> i]).shares

\* What a user types for a share: its index, then its words.
Typed(share) ==
    [index |-> share.id,
     secret |-> Bip39Secret_to_mnemonic(share.secret, StandardDictionary)]

\* The slips a user can make on one typed share of a list.
Slips(list, pos) ==
    {[list[pos] EXCEPT !.index = 0], [list[pos] EXCEPT !.index = NotAByte]}
        \cup {[list[pos] EXCEPT !.index = list[j].index] : j \in (1..Len(list)) \ {pos}}
        \cup {[list[pos] EXCEPT !.secret = m] :
                m \in TypedMnemonics(HeldShares[list[pos].index].secret)
                        \ {list[pos].secret}}

\* The share lists typed: the held shares in any order, with at most one slip.
TypedShareLists ==
    LET right == Arrangements(collect([i \in 1..Len(HeldShares) |-> Typed(HeldShares[i])]))
        places == {place \in right \X (1..MaxBipN) : place[2] <= Len(place[1])}
    IN  right \cup UNION {{[place[1] EXCEPT ![place[2]] = slip] :
                                slip \in Slips(place[1], place[2])} : place \in places}

ShareString(typed) == <<typed.index>> \o typed.secret

\* reconstruct without --shares: the Vec argument is optional, and clap hands
\* main an empty Vec.
NoSharesTyped == <<>>

CommandLines ==
    {[name |-> "split", secret |-> m, n |-> n, t |-> t] :
        m \in SecretMnemonics, n \in 0..MaxBipN, t \in 0..MaxBipN}
    \cup {[name |-> "reconstruct",
           shares |-> collect([i \in 1..Len(list) |-> ShareString(list[i])])] :
            list \in TypedShareLists \cup {NoSharesTyped}}
    \cup {[name |-> "check", mnemonic |-> m] : m \in SecretMnemonics}

NothingLoaded == [secret |-> <<>>, shares |-> <<>>]

NoCodec == [stage |-> "idle"]

InitTrait ==
    /\ kind \in Kinds
    /\ secret \in Secrets(kind)
    /\ rng \in {NewRng(seed) : seed \in Seeds}
    /\ params = NoParams
    /\ shares = <<>>
    /\ input = <<>>
    /\ output = NoOutput
    /\ phase = "new"
    /\ argv = <<>>
    /\ operation = <<>>
    /\ pc = "idle"
    /\ loaded = NothingLoaded
    /\ stdout = <<>>
    /\ exit = "running"
    /\ codec = NoCodec

InitMain ==
    /\ kind = "main"
    /\ secret = <<>>
    /\ rng = <<>>
    /\ params = NoParams
    /\ shares = <<>>
    /\ input = <<>>
    /\ output = NoOutput
    /\ phase = "idle"
    /\ argv \in CommandLines
    /\ operation = <<>>
    /\ pc = "args"
    /\ loaded = NothingLoaded
    /\ stdout = <<>>
    /\ exit = "running"
    /\ codec = NoCodec

Init == InitTrait \/ InitMain

\* secret.split(n, t, &mut rng) with parameters the assertions accept.
Split ==
    /\ phase = "new"
    /\ \E n \in 0..MaxShares(kind), t \in 0..MaxShares(kind) :
        /\ ~SplitPanics(n, t)
        /\ \E order \in IterationOrders(n) :
            LET done == split(kind, secret, n, t, rng, order)
            IN  /\ shares' = done.shares
                /\ rng' = done.rng
        /\ params' = [n |-> n, t |-> t]
        /\ phase' = "split"
    /\ UNCHANGED <<kind, secret, input, output, cliVars, codec>>

\* secret.split(n, t, &mut rng) with parameters an assertion rejects.
SplitPanic ==
    /\ phase = "new"
    /\ \E n \in 0..MaxShares(kind), t \in 0..MaxShares(kind) :
        /\ SplitPanics(n, t)
        /\ params' = [n |-> n, t |-> t]
        /\ phase' = "panicked"
    /\ UNCHANGED <<kind, secret, rng, shares, input, output, cliVars, codec>>

\* T::reconstruct(list): it returns, or a division panics.
Call(list) ==
    /\ input' = list
    /\ IF gf256_reconstruct_panics(list)
       THEN /\ output' = NoOutput
            /\ phase' = "panicked"
       ELSE /\ output' = Returned(reconstruct(kind, list))
            /\ phase' = "reconstructed"
    /\ UNCHANGED <<kind, secret, rng, params, shares, cliVars, codec>>

\* The caller hands over shares that split returned, in any order.
Reconstruct ==
    /\ phase = "split"
    /\ \E list \in Arrangements(shares) : Call(list)

\* The caller hands over shares of which it labelled the first or the last
\* itself: with 0, or with the id of the share at the other end of the list.
ReconstructRelabelled ==
    /\ phase = "split"
    /\ \E list \in Arrangements(shares) :
        \E pos \in {1, Len(list)} :
            \E id \in {0, list[Len(list) + 1 - pos].id} \ {list[pos].id} :
                Call([list EXCEPT ![pos].id = id])

\* The caller hands over an empty slice.
ReconstructEmpty ==
    /\ phase = "split"
    /\ Call(<<>>)

\* main stops with an error: nothing more is printed to stdout.
Fail == pc' = "done" /\ exit' = "failure"

\* Args::parse(): clap turns every share string into a ShareString and exits
\* with an error when one does not parse.
MainParseArgs ==
    /\ pc = "args"
    /\ IF argv.name = "reconstruct"
       THEN LET parsed == collect([i \in 1..Len(argv.shares) |->
                                      ShareString_from_str(argv.shares[i])])
            IN  IF \E i \in 1..Len(parsed) : ~parsed[i].ok
                THEN Fail /\ UNCHANGED operation
                ELSE /\ operation' = [name |-> "reconstruct",
                                      shares |-> collect([i \in 1..Len(parsed) |->
                                                             parsed[i].value])]
                     /\ pc' = "from_mnemonic"
                     /\ UNCHANGED exit
       ELSE /\ operation' = argv
            /\ pc' = IF argv.name = "split" THEN "ensure" ELSE "from_mnemonic"
            /\ UNCHANGED exit
    /\ UNCHANGED <<traitVars, argv, loaded, stdout, codec>>

\* Operation::Split: the three ensure! lines.
MainEnsure ==
    /\ pc = "ensure"
    /\ IF EnsureFails(operation.n, operation.t)
       THEN Fail
       ELSE pc' = "from_mnemonic" /\ UNCHANGED exit
    /\ UNCHANGED <<traitVars, argv, operation, loaded, stdout, codec>>

\* from_mnemonic(..)?: of the secret (split, check) or of every share.
MainFromMnemonic ==
    /\ pc = "from_mnemonic"
    /\ LET parsed ==
               CASE operation.name = "split" ->
                        Bip39Secret_from_mnemonic(operation.secret, StandardDictionary)
                 [] operation.name = "check" ->
                        Bip39Secret_from_mnemonic(operation.mnemonic, StandardDictionary)
                 [] operation.name = "reconstruct" ->
                        shares_from_mnemonics(operation.shares, StandardDictionary)
       IN  IF ~parsed.ok
           THEN Fail /\ UNCHANGED loaded
           ELSE /\ loaded' = IF operation.name = "reconstruct"
                             THEN [loaded EXCEPT !.shares = parsed.value]
                             ELSE [loaded EXCEPT !.secret = <<parsed.value>>]
                /\ pc' = "is_valid"
                /\ UNCHANGED exit
    /\ UNCHANGED <<traitVars, argv, operation, stdout, codec>>

\* is_valid(): `?` ends split and reconstruct on an error; check prints the
\* outcome and goes on to return Ok(()).
MainIsValid ==
    /\ pc = "is_valid"
    /\ CASE operation.name = "split" ->
                IF Bip39Secret_is_valid(loaded.secret[1]).ok
                THEN pc' = "split" /\ UNCHANGED <<exit, stdout>>
                ELSE Fail /\ UNCHANGED stdout
         [] operation.name = "reconstruct" ->
                IF shares_are_valid(loaded.shares).ok
                THEN pc' = "reconstruct" /\ UNCHANGED <<exit, stdout>>
                ELSE Fail /\ UNCHANGED stdout
         [] operation.name = "check" ->
                /\ stdout' = IF Bip39Secret_is_valid(loaded.secret[1]).ok
                             THEN <<[heading |-> <<"The mnemonic is valid">>,
                                     mnemonic |-> <<>>]>>
                             ELSE <<[heading |-> <<"Invalid mnemonic:">>,
                                     mnemonic |-> <<>>]>>
                /\ pc' = "done"
                /\ exit' = "success"
    /\ UNCHANGED <<traitVars, argv, operation, loaded, codec>>

\* secret.split(n, t, &mut rand::rng())
MainSplit ==
    /\ pc = "split"
    /\ \E seed \in Seeds, order \in IterationOrders(operation.n) :
        loaded' = [loaded EXCEPT !.shares =
                      Bip39Secret_split(loaded.secret[1], operation.n, operation.t,
                                        NewRng(seed), order).shares]
    /\ pc' = "print_shares"
    /\ UNCHANGED <<traitVars, argv, operation, stdout, exit, codec>>

\* The loop that prints the shares, the closing sentence, and Ok(()).
MainPrintShares ==
    /\ pc = "print_shares"
    /\ stdout' = split_printout(loaded.shares, operation.n, operation.t,
                                StandardDictionary)
    /\ pc' = "done"
    /\ exit' = "success"
    /\ UNCHANGED <<traitVars, argv, operation, loaded, codec>>

\* Bip39Secret::reconstruct(&shares)
MainReconstruct ==
    /\ pc = "reconstruct"
    /\ IF gf256_reconstruct_panics(loaded.shares)
       THEN /\ pc' = "done"
            /\ exit' = "panic"
            /\ UNCHANGED loaded
       ELSE /\ loaded' = [loaded EXCEPT !.secret =
                             <<Bip39Secret_reconstruct(loaded.shares)>>]
            /\ pc' = "print_secret"
            /\ UNCHANGED exit
    /\ UNCHANGED <<traitVars, argv, operation, stdout, codec>>

\* pretty_print_mnemonic("Master Secret", ..) and Ok(()).
MainPrintSecret ==
    /\ pc = "print_secret"
    /\ stdout' = <<[heading |-> <<"Master Secret">>,
                    mnemonic |-> Bip39Secret_to_mnemonic(loaded.secret[1],
                                                         StandardDictionary)]>>
    /\ pc' = "done"
    /\ exit' = "success"
    /\ UNCHANGED <<traitVars, argv, operation, loaded, codec>>

Next ==
    \/ Split
    \/ SplitPanic
    \/ Reconstruct
    \/ ReconstructRelabelled
    \/ ReconstructEmpty
    \/ MainParseArgs
    \/ MainEnsure
    \/ MainFromMnemonic
    \/ MainIsValid
    \/ MainSplit
    \/ MainPrintShares
    \/ MainReconstruct
    \/ MainPrintSecret

Spec == Init /\ [][Next]_vars

(***************************************************************************)
(* The mnemonic codec on its own: an entropy is wrapped into a secret, the *)
(* secret is written as a mnemonic, and the mnemonic is read back.         *)
(***************************************************************************)
\* The entropies the codec is applied to, as 32-byte arrays.
SampleEntropies == {SampleArray(b, ENTROPY_BYTES) : b \in 0..MaxEntropy}

\* The codes of a text of count words: it starts at code first and steps
\* through the dictionary by stride.
CodesOf(first, stride, count) ==
    collect([i \in 1..count |-> (first + stride * (i - 1)) % DICTIONARY_WORDS])

\* The strides of the model: none, a small one and one that wraps around.
Stride(step) == 89 * step

SampleCodes ==
    {CodesOf(first, Stride(step), MNEMONIC_WORDS) :
        first \in (0..MaxCodeStart) \cup {DICTIONARY_WORDS - 1},
        step \in 0..MaxCodeStep}

\* The words of a sequence of codes, as split_whitespace yields them.
WordsOf(codes) == collect([i \in 1..Len(codes) |-> WordOnLine(codes[i])])

\* The texts handed to from_mnemonic: 24 dictionary words; the same with a
\* word missing, with a word too many, cut to 12 words, with a foreign word
\* at either end; and the empty text.
TypedTexts ==
    UNION {LET words == WordsOf(codes)
           IN  {words,
                SubSeq(words, 1, MNEMONIC_WORDS - 1),
                Append(words, words[1]),
                SubSeq(words, 1, MNEMONIC_WORDS \div 2),
                [words EXCEPT ![1] = UnknownWord],
                [words EXCEPT ![MNEMONIC_WORDS] = UnknownWord],
                Append(words, UnknownWord)} : codes \in SampleCodes}
        \cup {<<>>}

\* The 11-bit code k, most significant bit first.
CodeBits(k) ==
    [j \in 1..DICTIONARY_INDICES_BITS |->
        (k \div pow2(DICTIONARY_INDICES_BITS - j)) % 2 = 1]

\* Bip39Dictionary::load: the file is read, its lines are the words, and the
\* conversion to [String; DICTIONARY_WORDS] fails on any other number of them.
Bip39Dictionary_load(file) ==
    IF ~file.exists THEN Err("No such file")
    ELSE IF Len(file.lines) # DICTIONARY_WORDS
         THEN Err("Invalid BIP-39 dictionary length")
         ELSE Ok([words |-> file.lines])

\* The dictionary files of the model: the standard one; one whose second
\* line repeats the first, one whose last line repeats the first; one a line
\* short, one a line long, an empty one; and a path with no file behind it.
DictionaryFiles ==
    LET standard == StandardDictionary.words
    IN  {[exists |-> TRUE, lines |-> lines] :
            lines \in {standard,
                       [standard EXCEPT ![2] = standard[1]],
                       [standard EXCEPT ![DICTIONARY_WORDS] = standard[1]],
                       SubSeq(standard, 1, DICTIONARY_WORDS - 1),
                       Append(standard, UnknownWord),
                       <<>>}}
        \cup {[exists |-> FALSE, lines |-> <<>>]}

\* The codes looked up in a loaded dictionary.
LookupCodes == (0..MaxCodeStart) \cup {DICTIONARY_WORDS - 1}

\* The byte sequences handed to bytes_to_bits: none, every single byte, and
\* the pairs of a few bytes with their bits set at either end or alternating.
EdgeBytes == {0, 1, 85, 128, 170, 255}

ByteSequences ==
    {<<>>} \cup {<<b>> : b \in Bytes} \cup {<<a, b>> : a \in EdgeBytes, b \in EdgeBytes}

\* The bit sequences handed to bits_to_bytes as they are: every one of up to
\* MaxBits bits.
BitSequences == UNION {[1..len -> BOOLEAN] : len \in 0..MaxBits}

NoBytes == [given |-> FALSE]

InitCodec ==
    /\ kind = "codec"
    /\ secret = <<>>
    /\ rng = <<>>
    /\ params = NoParams
    /\ shares = <<>>
    /\ input = <<>>
    /\ output = NoOutput
    /\ phase = "idle"
    /\ argv = <<>>
    /\ operation = <<>>
    /\ pc = "idle"
    /\ loaded = NothingLoaded
    /\ stdout = <<>>
    /\ exit = "running"
    /\ \/ \E bytes \in SampleEntropies :
            codec = [stage |-> "entropy", entropy |-> Entropy_from_array(bytes)]
       \/ \E text \in TypedTexts :
            codec = [stage |-> "typed", mnemonic |-> text]
       \/ \E file \in DictionaryFiles :
            codec = [stage |-> "file", file |-> file]
       \/ \E bytes \in ByteSequences :
            codec = [stage |-> "bytes", bytes |-> bytes]
       \/ \E bits \in BitSequences :
            codec = [stage |-> "bits", bits |-> collect(bits), from |-> NoBytes]

\* Bip39Secret::from(entropy)
CodecWrap ==
    /\ codec.stage = "entropy"
    /\ codec' = [stage |-> "secret", entropy |-> codec.entropy,
                 secret |-> Bip39Secret_from(codec.entropy)]
    /\ UNCHANGED <<traitVars, cliVars>>

\* secret.to_mnemonic(&dictionary)
CodecToMnemonic ==
    /\ codec.stage = "secret"
    /\ codec' = [stage |-> "mnemonic", entropy |-> codec.entropy,
                 secret |-> codec.secret,
                 mnemonic |-> Bip39Secret_to_mnemonic(codec.secret, StandardDictionary)]
    /\ UNCHANGED <<traitVars, cliVars>>

\* Bip39Secret::from_mnemonic(&mnemonic, &dictionary)
CodecFromMnemonic ==
    /\ codec.stage = "mnemonic"
    /\ codec' = [stage |-> "parsed", entropy |-> codec.entropy,
                 secret |-> codec.secret, mnemonic |-> codec.mnemonic,
                 parsed |-> Bip39Secret_from_mnemonic(codec.mnemonic, StandardDictionary)]
    /\ UNCHANGED <<traitVars, cliVars>>

\* Bip39Secret::from_mnemonic(&text, &dictionary) on a text as typed.
CodecReadTyped ==
    /\ codec.stage = "typed"
    /\ codec' = [stage |-> "read", mnemonic |-> codec.mnemonic,
                 parsed |-> Bip39Secret_from_mnemonic(codec.mnemonic, StandardDictionary)]
    /\ UNCHANGED <<traitVars, cliVars>>

\* Bip39Dictionary::load(path)
CodecLoad ==
    /\ codec.stage = "file"
    /\ codec' = [stage |-> "loaded", file |-> codec.file,
                 dictionary |-> Bip39Dictionary_load(codec.file)]
    /\ UNCHANGED <<traitVars, cliVars>>

\* dictionary.bits_from_word(&dictionary.word_from_bits(&bits)) on a
\* dictionary that load returned.
CodecLookup ==
    /\ codec.stage = "loaded"
    /\ codec.dictionary.ok
    /\ \E code \in LookupCodes :
        LET word == word_from_bits(codec.dictionary.value, CodeBits(code))
        IN  codec' = [stage |-> "looked", file |-> codec.file,
                      dictionary |-> codec.dictionary, code |-> code, word |-> word,
                      back |-> bits_from_word(codec.dictionary.value, word)]
    /\ UNCHANGED <<traitVars, cliVars>>

\* bytes_to_bits(&bytes)
CodecBytesToBits ==
    /\ codec.stage = "bytes"
    /\ codec' = [stage |-> "bits", bits |-> bytes_to_bits(codec.bytes),
                 from |-> [given |-> TRUE, bytes |-> codec.bytes]]
    /\ UNCHANGED <<traitVars, cliVars>>

\* bits_to_bytes(&bits)
CodecBitsToBytes ==
    /\ codec.stage = "bits"
    /\ codec' = [stage |-> "packed", bits |-> codec.bits, from |-> codec.from,
                 bytes |-> bits_to_bytes(codec.bits)]
    /\ UNCHANGED <<traitVars, cliVars>>

NextCodec ==
    \/ CodecWrap
    \/ CodecBytesToBits
    \/ CodecBitsToBytes
    \/ CodecToMnemonic
    \/ CodecFromMnemonic
    \/ CodecReadTyped
    \/ CodecLoad
    \/ CodecLookup

SpecCodec == InitCodec /\ [][NextCodec]_vars

(***************************************************************************)
(* Properties                                                              *)
(***************************************************************************)
\* The list handed to reconstruct holds shares split returned, no id twice.
InputFromSplit ==
    /\ input # <<>>
    /\ \A i \in 1..Len(input) : \E j \in 1..Len(shares) : input[i] = shares[j]
    /\ \A i, j \in 1..Len(input) : i # j => input[i].id # input[j].id

\* C1: reconstruct on at least t distinct shares returned by split, in any
\* order and with any gaps between the ids, returns exactly the secret, for
\* each of gf256, FieldArray and Bip39Secret.
C1_ThresholdSharesRecoverSecret ==
    (/\ phase \in {"reconstructed", "panicked"}
     /\ InputFromSplit
     /\ Len(input) >= params.t)
        => /\ output.returned
           /\ output.value = secret

C1_Witness ==
    /\ phase = "reconstructed"
    /\ kind = "FieldArray"
    /\ params = [n |-> 3, t |-> 2]
    /\ InputFromSplit
    /\ Ids(input) = <<3, 1>>
    /\ output.value = secret

\* The share values at the ids of a set, as a function of the id.
View(list, ids) == [id \in ids |-> list[id].secret]

\* The coefficient vectors Random::random can produce for a threshold.
CoefficientVectors(t) == [1..(t - 1) -> gf256_random_low..gf256_random_high]

\* The view at ids of the shares of the polynomial with constant term s and
\* further coefficients c.
ViewOf(s, c, ids) ==
    [id \in ids |-> ShamirPolynomial_evaluate(<<s>> \o c, id)]

\* C2: whatever t-1 of the shares of a gf256 secret one looks at, the values
\* seen can be produced by split for every other secret as well.
C2_ViewPossibleForEverySecret ==
    (phase = "split" /\ kind = "gf256" /\ params.t >= 2)
        => \A ids \in SUBSET (1..params.n) :
               Cardinality(ids) = params.t - 1
                   => \A other \in Bytes :
                          \E c \in CoefficientVectors(params.t) :
                              ViewOf(other, c, ids) = View(shares, ids)

\* C3: reconstruct on exactly t-1 distinct shares returned by split returns
\* a value that differs from the secret.
C3_OneShareShortDiffers ==
    (/\ phase \in {"reconstructed", "panicked"}
     /\ InputFromSplit
     /\ params.t >= 2
     /\ Len(input) = params.t - 1)
        => /\ output.returned
           /\ output.value # secret

C3_Witness ==
    /\ phase = "reconstructed"
    /\ kind = "gf256"
    /\ params = [n |-> 3, t |-> 3]
    /\ InputFromSplit
    /\ Len(input) = 2
    /\ output.value # secret

\* The bytes of a value of an array type.
BytesOf(k, value) ==
    IF k = "Bip39Secret" THEN Entropy_to_bytes(value.entropy) ELSE value

\* C4 as stated: for the array types, reconstruct on the first i shares of
\* any shuffle of the shares differs from the secret for every 1 <= i < t.
C4_EveryShortPrefixDiffers ==
    (/\ phase = "reconstructed"
     /\ kind \in {"FieldArray", "Bip39Secret"}
     /\ InputFromSplit
     /\ Len(input) < params.t)
        => output.value # secret

\* C4 as amended: for the array types, reconstruct on the first t-1 shares of
\* any shuffle differs from the secret, and does so in every byte; on fewer
\* shares the result may equal the secret.
C4_LongestShortPrefixDiffersInEveryByte ==
    (/\ phase = "reconstructed"
     /\ kind \in {"FieldArray", "Bip39Secret"}
     /\ InputFromSplit
     /\ Len(input) = params.t - 1)
        => \A b \in 1..Len(BytesOf(kind, secret)) :
               BytesOf(kind, output.value)[b] # BytesOf(kind, secret)[b]

C4_Witness ==
    /\ phase = "reconstructed"
    /\ kind = "FieldArray"
    /\ params.t = 3
    /\ InputFromSplit
    /\ Ids(input) = <<3, 2>>
    /\ \A b \in 1..ArrayLen : output.value[b] # secret[b]

\* C5: every share Bip39Secret::split returns, and every secret
\* Bip39Secret::reconstruct returns on whatever list, passes is_valid.
C5_SharesAndResultsValidate ==
    kind = "Bip39Secret"
        => /\ \A i \in 1..Len(shares) : Bip39Share_is_valid(shares[i]).ok
           /\ output.returned => Bip39Secret_is_valid(output.value).ok

C5_Witness ==
    /\ kind = "Bip39Secret"
    /\ phase = "reconstructed"
    /\ InputFromSplit
    /\ Len(input) < params.t
    /\ output.value # secret
    /\ Bip39Secret_is_valid(output.value).ok
    /\ \A i \in 1..Len(shares) : shares[i].secret.checksum # secret.checksum

\* C6: split returns exactly n shares with the ids 1, 2, .., n in this order,
\* and the label "Share i/n" that main prints is the id of the share whose
\* mnemonic follows it.
C6_SharesCarryIdsInOrder ==
    /\ (kind \in Kinds /\ phase \in {"split", "reconstructed"})
           => /\ Len(shares) = params.n
              /\ \A i \in 1..Len(shares) : shares[i].id = i
    /\ (kind = "main" /\ operation # <<>> /\ operation.name = "split" /\ exit = "success")
           => /\ Len(loaded.shares) = operation.n
              /\ Len(stdout) = operation.n + 1
              /\ \A i \in 1..operation.n :
                    /\ stdout[i].heading = <<"Share", i, operation.n>>
                    /\ \E j \in 1..Len(loaded.shares) :
                          /\ loaded.shares[j].id = i
                          /\ loaded.shares[j].id # 0
                          /\ stdout[i].mnemonic =
                                 Bip39Share_to_mnemonic(loaded.shares[j], StandardDictionary)

C6_Witness ==
    /\ kind = "main"
    /\ operation # <<>>
    /\ operation.name = "split"
    /\ operation.n = 2
    /\ operation.t = 2
    /\ exit = "success"
    /\ stdout[2].heading = <<"Share", 2, 2>>
    /\ loaded.shares[2].id = 2
    /\ stdout[1].mnemonic # stdout[2].mnemonic

\* C7: the mnemonic written for the secret built from an entropy reads back,
\* without error, as a secret with that entropy and the same checksum, and
\* the secret read back passes is_valid.
C7_MnemonicReadsBack ==
    codec.stage = "parsed"
        => /\ codec.parsed.ok
           /\ codec.parsed.value = codec.secret
           /\ codec.parsed.value.entropy = codec.entropy
           /\ Bip39Secret_is_valid(codec.parsed.value).ok

C7_Witness ==
    /\ codec.stage = "parsed"
    /\ codec.parsed.ok
    /\ codec.parsed.value.entropy = codec.entropy
    /\ codec.entropy = Entropy_from_array(SampleArray(7, ENTROPY_BYTES))
    /\ Len(codec.mnemonic) = MNEMONIC_WORDS

\* main runs Operation::Split on a mnemonic that parses but whose declared
\* checksum is not the checksum of its entropy.
SplitOfInconsistentSecret ==
    /\ kind = "main"
    /\ operation # <<>>
    /\ operation.name = "split"
    /\ loaded.secret # <<>>
    /\ loaded.secret[1].checksum # Checksum_from(loaded.secret[1].entropy)

\* C8: split on a mnemonic that is not self-consistent generates no share,
\* prints nothing and ends with an error.
C8_InconsistentSecretIsNotSplit ==
    SplitOfInconsistentSecret
        => /\ loaded.shares = <<>>
           /\ stdout = <<>>
           /\ pc \in {"is_valid", "done"}
           /\ pc = "done" => exit = "failure"

C8_Witness ==
    /\ SplitOfInconsistentSecret
    /\ pc = "done"
    /\ exit = "failure"
    /\ ~EnsureFails(operation.n, operation.t)

\* main runs Operation::Reconstruct on shares that all parse, one of which
\* declares a checksum that is not the checksum of its entropy.
ReconstructWithInconsistentShare ==
    /\ kind = "main"
    /\ operation # <<>>
    /\ operation.name = "reconstruct"
    /\ \E i \in 1..Len(loaded.shares) :
          loaded.shares[i].secret.checksum
              # Checksum_from(loaded.shares[i].secret.entropy)

\* C9: reconstruct checks every share before it interpolates: with a share
\* that is not self-consistent it never reaches the interpolation, produces
\* and prints no mnemonic, and ends with an error.
C9_InconsistentShareStopsReconstruct ==
    ReconstructWithInconsistentShare
        => /\ pc \in {"is_valid", "done"}
           /\ loaded.secret = <<>>
           /\ stdout = <<>>
           /\ pc = "done" => exit = "failure"

C9_Witness ==
    /\ ReconstructWithInconsistentShare
    /\ Len(loaded.shares) = 2
    /\ Bip39Share_is_valid(loaded.shares[1]).ok
    /\ ~Bip39Share_is_valid(loaded.shares[2]).ok
    /\ pc = "done"
    /\ exit = "failure"

\* C10: reconstruct on a share list that holds a share with id 0 returns no
\* secret: the trait method does not return, and main prints no mnemonic.
C10_ZeroIdIsRejected ==
    /\ (/\ kind \in Kinds
        /\ phase \in {"reconstructed", "panicked"}
        /\ \E i \in 1..Len(input) : input[i].id = 0)
           => ~output.returned
    /\ (/\ kind = "main"
        /\ operation # <<>>
        /\ operation.name = "reconstruct"
        /\ \E i \in 1..Len(operation.shares) : operation.shares[i].index = 0)
           => /\ loaded.secret = <<>>
              /\ stdout = <<>>
              /\ exit # "success"

\* Two entries of a list of shares carry the same id.
HasDuplicateIds(ids) == \E i, j \in 1..Len(ids) : i # j /\ ids[i] = ids[j]

\* C11: reconstruct on a share list in which two shares carry the same id
\* returns no secret: the trait method panics, and main ends without success
\* and without a mnemonic printed.
C11_DuplicateIdsAreRejected ==
    /\ (/\ kind \in Kinds
        /\ phase \in {"reconstructed", "panicked"}
        /\ HasDuplicateIds(Ids(input)))
           => /\ phase = "panicked"
              /\ ~output.returned
    /\ (/\ kind = "main"
        /\ operation # <<>>
        /\ operation.name = "reconstruct"
        /\ HasDuplicateIds([i \in 1..Len(operation.shares) |-> operation.shares[i].index]))
           => /\ loaded.secret = <<>>
              /\ stdout = <<>>
              /\ exit # "success"

C11_Witness ==
    /\ kind = "FieldArray"
    /\ phase = "panicked"
    /\ Len(input) = 2
    /\ input[1].id = input[2].id
    /\ input[1].secret # input[2].secret
    /\ ~output.returned

\* main reached the interpolation with two shares of one index and panicked.
C11_WitnessMain ==
    /\ kind = "main"
    /\ exit = "panic"
    /\ Len(loaded.shares) = 2
    /\ loaded.shares[1].id = loaded.shares[2].id

\* C12: reconstruct on no share at all returns no secret and no mnemonic: the
\* trait method does not return, and main signals an error and prints
\* nothing.
C12_EmptyShareSetIsAnError ==
    /\ (/\ kind \in Kinds
        /\ shares # <<>>
        /\ phase \in {"reconstructed", "panicked"}
        /\ input = <<>>)
           => ~output.returned
    /\ (/\ kind = "main"
        /\ operation # <<>>
        /\ operation.name = "reconstruct"
        /\ operation.shares = <<>>)
           => /\ loaded.secret = <<>>
              /\ stdout = <<>>
              /\ exit # "success"

\* The parameters violate 1 <= t <= n.
OutOfBounds(n, t) == n = 0 \/ t = 0 \/ t > n

\* C13: split called with n = 0, t = 0 or t > n returns no shares: the trait
\* method of gf256, FieldArray and Bip39Secret panics before a coefficient
\* is drawn, and main's split ends with an error before it parses, splits
\* or prints anything.
C13_OutOfBoundsParametersYieldNoShares ==
    /\ (/\ kind \in Kinds
        /\ phase # "new"
        /\ OutOfBounds(params.n, params.t))
           => /\ phase = "panicked"
              /\ shares = <<>>
              /\ rng.pos = 0
    /\ (/\ kind = "main"
        /\ operation # <<>>
        /\ operation.name = "split"
        /\ OutOfBounds(operation.n, operation.t))
           => /\ pc \in {"ensure", "done"}
              /\ loaded = NothingLoaded
              /\ stdout = <<>>
              /\ exit # "success"
              /\ pc = "done" => exit = "failure"

C13_Witness ==
    /\ kind = "Bip39Secret"
    /\ phase = "panicked"
    /\ params = [n |-> 1, t |-> 2]
    /\ shares = <<>>

\* main refused a split whose threshold exceeds the number of shares.
C13_WitnessMain ==
    /\ kind = "main"
    /\ operation # <<>>
    /\ operation.name = "split"
    /\ operation.n = 1
    /\ operation.t = 2
    /\ pc = "done"
    /\ exit = "failure"

\* The code of a dictionary word: the line it stands on, counted from 0.
CodeOfWord(word) ==
    (CHOOSE k \in 1..DICTIONARY_WORDS : StandardDictionary.words[k] = word) - 1

InDictionary(word) ==
    \E k \in 1..DICTIONARY_WORDS : StandardDictionary.words[k] = word

\* Bit b of the concatenated codes of the words of a text.
ConcatenatedBit(text, b) ==
    CodeBits(CodeOfWord(text[((b - 1) \div DICTIONARY_INDICES_BITS) + 1]))
        [((b - 1) % DICTIONARY_INDICES_BITS) + 1]

\* C14: from_mnemonic returns an error and no secret for a text that has not
\* exactly 24 words or holds a word that is not in the dictionary; for a text
\* of 24 dictionary words it returns the secret whose entropy is the first
\* 256 bits of the concatenated 11-bit codes and whose checksum is the last 8.
C14_FromMnemonicAcceptsExactly24KnownWords ==
    codec.stage = "read"
        => LET text == codec.mnemonic
               wellFormed == /\ Len(text) = MNEMONIC_WORDS
                             /\ \A w \in 1..Len(text) : InDictionary(text[w])
           IN  /\ codec.parsed.ok <=> wellFormed
               /\ wellFormed =>
                     /\ Len(codec.parsed.value.entropy) = 256
                     /\ Len(codec.parsed.value.checksum) = 8
                     /\ \A b \in 1..256 :
                           codec.parsed.value.entropy[b] = ConcatenatedBit(text, b)
                     /\ \A b \in 1..8 :
                           codec.parsed.value.checksum[b] = ConcatenatedBit(text, 256 + b)

\* A text of 24 dictionary words that starts at the last code was read.
C14_Witness ==
    /\ codec.stage = "read"
    /\ codec.parsed.ok
    /\ Len(codec.mnemonic) = MNEMONIC_WORDS
    /\ codec.mnemonic[1] = WordOnLine(DICTIONARY_WORDS - 1)
    /\ codec.mnemonic[2] # codec.mnemonic[1]
    /\ \A b \in 1..DICTIONARY_INDICES_BITS : codec.parsed.value.entropy[b]

\* A text with a word too many was refused.
C14_WitnessLong ==
    /\ codec.stage = "read"
    /\ ~codec.parsed.ok
    /\ Len(codec.mnemonic) = MNEMONIC_WORDS + 1
    /\ \A w \in 1..Len(codec.mnemonic) : InDictionary(codec.mnemonic[w])

\* The lines are exactly DICTIONARY_WORDS pairwise different words.
IsBijective(lines) ==
    /\ Len(lines) = DICTIONARY_WORDS
    /\ \A i, j \in 1..Len(lines) : i # j => lines[i] # lines[j]

\* C15: load returns a dictionary exactly for the files of 2048 pairwise
\* different words, and in a dictionary it returned every 11-bit code reads
\* back: bits_from_word(word_from_bits(k)) = k.
C15_LoadedDictionaryIsABijection ==
    codec.stage \in {"loaded", "looked"}
        => /\ codec.dictionary.ok <=> (codec.file.exists /\ IsBijective(codec.file.lines))
           /\ codec.stage = "looked"
                 => /\ codec.back.ok
                    /\ codec.back.value = CodeBits(codec.code)

\* The run of main met no argument, parse or validation error: the
\* arguments parsed, split's parameters are in bounds, every mnemonic parsed
\* and every parsed secret or share carries the checksum of its entropy.
RunWithoutError ==
    /\ operation # <<>>
    /\ CASE operation.name = "split" ->
                /\ ~OutOfBounds(operation.n, operation.t)
                /\ loaded.secret # <<>>
                /\ Bip39Secret_is_valid(loaded.secret[1]).ok
         [] operation.name = "check" ->
                /\ loaded.secret # <<>>
                /\ Bip39Secret_is_valid(loaded.secret[1]).ok
         [] operation.name = "reconstruct" ->
                /\ Len(loaded.shares) = Len(operation.shares)
                /\ \A i \in 1..Len(loaded.shares) :
                      Bip39Share_is_valid(loaded.shares[i]).ok

\* C16: main ends with exit code 0 only when it met no argument, parse or
\* validation error; in particular check ends with exit code 0 only on a
\* mnemonic whose checksum matches its entropy.
C16_ExitCodeZeroOnlyWithoutError ==
    (kind = "main" /\ pc = "done" /\ exit = "success") => RunWithoutError

\* The same for split and reconstruct alone.
C16_SplitAndReconstructExitCodes ==
    (/\ kind = "main"
     /\ pc = "done"
     /\ exit = "success"
     /\ operation.name # "check") => RunWithoutError

\* Bit number e (0 the lowest) of a byte is set.
BitIsSet(byte, e) == (byte \div pow2(e)) % 2 = 1

\* C17: bytes_to_bits writes 8 bits per byte, bit 7 first and bit 0 last;
\* bits_to_bytes reads groups of 8 bits the same way and fills a shorter last
\* group with zeros in the low-order positions; and bits_to_bytes gives back
\* the bytes that bytes_to_bits was given.
C17_BitCodecIsMsbFirstAndReadsBack ==
    /\ (codec.stage \in {"bits", "packed"} /\ codec.from.given)
           => /\ Len(codec.bits) = 8 * Len(codec.from.bytes)
              /\ \A k \in 1..Len(codec.from.bytes) : \A i \in 1..8 :
                    codec.bits[8 * (k - 1) + i] = BitIsSet(codec.from.bytes[k], 8 - i)
    /\ codec.stage = "packed"
           => /\ Len(codec.bytes) = (Len(codec.bits) + 7) \div 8
              /\ \A c \in 1..Len(codec.bytes) :
                    /\ codec.bytes[c] \in Bytes
                    /\ \A i \in 1..8 :
                          BitIsSet(codec.bytes[c], 8 - i)
                              <=> /\ 8 * (c - 1) + i <= Len(codec.bits)
                                  /\ codec.bits[8 * (c - 1) + i]
              /\ codec.from.given => codec.bytes = codec.from.bytes

\* Two bytes were written as bits and read back.
C17_Witness ==
    /\ codec.stage = "packed"
    /\ codec.from.given
    /\ codec.from.bytes = <<170, 1>>
    /\ codec.bytes = <<170, 1>>
    /\ codec.bits[1] /\ ~codec.bits[2] /\ codec.bits[16]

\* Nine bits were read: the ninth is bit 7 of the second byte.
C17_WitnessShortGroup ==
    /\ codec.stage = "packed"
    /\ ~codec.from.given
    /\ Len(codec.bits) = 9
    /\ codec.bits[9]
    /\ Len(codec.bytes) = 2
    /\ codec.bytes[2] = 128

\* The steps of T::split and of T::reconstruct for gf256 and FieldArray.
split_steps(k, s, n, t, r, order) ==
    IF k = "gf256" THEN gf256_split_steps(s, n, t, r)
    ELSE FieldArray_split_steps(s, n, t, r, order)

reconstruct_steps(k, list) ==
    IF k = "gf256" THEN gf256_reconstruct_steps(list)
    ELSE FieldArray_reconstruct_steps(list, ArrayLen)

\* The list with the ids it has and the value a in every share.
Revalued(list, a) ==
    [i \in 1..Len(list) |-> ShamirShare_new(list[i].id, a)]

\* The source as it was handed to split.
RngAtStart == [rng EXCEPT !.pos = 0]

\* The secrets that hold one byte throughout.
ConstantSecrets(k) ==
    IF k = "gf256" THEN SampleBytes
    ELSE {[i \in 1..ArrayLen |-> b] : b \in SampleBytes}

\* The seeds at the two ends of the range.
ReferenceSeeds ==
    {[start |-> 0, step |-> 0], [start |-> MaxSeedStart, step |-> MaxSeedStep]}

\* C18: the steps evaluate, split and reconstruct execute are the same for
\* every secret, every draw of the coefficients and every share value, the
\* parameters n and t, the array length, the ids and the order in which the
\* HashMap yields its entries being the same.  Every run, on whatever secret,
\* seed and share values, is compared with the runs on the constant secrets
\* under the reference seeds and on the constant share values; equality
\* being transitive, any two runs on the same public parameters then execute
\* the same steps.
C18_StepsDependOnPublicParametersOnly ==
    /\ (kind \in {"gf256", "FieldArray"} /\ phase = "split")
           => \A order \in IterationOrders(params.n) :
                 LET own == split_steps(kind, secret, params.n, params.t,
                                        RngAtStart, order)
                 IN  \A other \in ConstantSecrets(kind), seed \in ReferenceSeeds :
                        split_steps(kind, other, params.n, params.t,
                                    NewRng(seed), order) = own
    /\ (/\ kind \in {"gf256", "FieldArray"}
        /\ shares # <<>>
        /\ phase \in {"reconstructed", "panicked"})
           => LET own == reconstruct_steps(kind, input)
              IN  \A a \in ConstantSecrets(kind) :
                     reconstruct_steps(kind, Revalued(input, a)) = own

\* A reconstruction from two shares of a split with threshold 3 in which one
\* share is zero (evaluate passed through y = 0), and which returns another
\* value when the shares in the list hold another value.
C18_Witness ==
    /\ kind = "gf256"
    /\ phase = "reconstructed"
    /\ params = [n |-> 3, t |-> 3]
    /\ Len(input) = 2
    /\ \E id \in 1..params.n : shares[id].secret = gf256_zero
    /\ \E a \in ConstantSecrets(kind) :
          /\ a # input[1].secret
          /\ a # input[2].secret
          /\ reconstruct(kind, Revalued(input, a)) # output.value

\* The source after the given number of draws since split was called.
RngAfter(draws) == [rng EXCEPT !.pos = draws]

\* C19: the split of an array of N bytes makes N * (t - 1) draws; byte k is
\* split as the scalar split splits it with draws (k-1)(t-1) .. k(t-1) - 1 of
\* the source, which no other byte uses; and the share with id x holds at
\* position k the value at x of the polynomial of byte k.
C19_EveryByteHasItsOwnPolynomial ==
    (kind \in {"FieldArray", "Bip39Secret"} /\ phase = "split")
        => LET bytes == BytesOf(kind, secret)
               N == Len(bytes)
               degree == params.t - 1
               held == collect([x \in 1..params.n |-> BytesOf(kind, shares[x].secret)])
           IN  /\ rng.pos = N * degree
               /\ \A k \in 1..N :
                     LET before == RngAfter((k - 1) * degree)
                         scalar == gf256_split(bytes[k], params.n, params.t, before)
                         polynomial == ShamirPolynomial_random(bytes[k], degree, before)
                     IN  /\ scalar.rng = RngAfter(k * degree)
                         /\ Len(polynomial.f) = params.t
                         /\ \A x \in 1..params.n :
                               /\ shares[x].id = x
                               /\ held[x][k] = scalar.shares[x].secret
                               /\ held[x][k] = ShamirPolynomial_evaluate(polynomial.f, x)

\* A split whose two bytes got different coefficients.
C19_Witness ==
    /\ kind = "FieldArray"
    /\ phase = "split"
    /\ params = [n |-> 2, t |-> 2]
    /\ rng.pos = ArrayLen
    /\ gf256_random(RngAfter(0)) # gf256_random(RngAfter(1))
    /\ gf_add(shares[1].secret[1], secret[1]) # gf_add(shares[1].secret[2], secret[2])

\* C20: with threshold 1, split draws nothing from the source and each of
\* the n shares holds the secret itself; each share mnemonic of a Bip39Secret
\* is the mnemonic of the secret, also as main prints it.
C20_ThresholdOneSharesAreCopies ==
    /\ (kind \in Kinds /\ phase = "split" /\ params.t = 1)
           => /\ rng.pos = 0
              /\ Len(shares) = params.n
              /\ \A i \in 1..Len(shares) :
                    /\ shares[i].secret = secret
                    /\ kind = "Bip39Secret"
                          => Bip39Share_to_mnemonic(shares[i], StandardDictionary)
                                 = Bip39Secret_to_mnemonic(secret, StandardDictionary)
    /\ (/\ kind = "main"
        /\ operation # <<>>
        /\ operation.name = "split"
        /\ operation.t = 1
        /\ exit = "success")
           => /\ Len(loaded.shares) = operation.n
              /\ \A i \in 1..operation.n :
                    /\ loaded.shares[i].secret = loaded.secret[1]
                    /\ stdout[i].mnemonic = operation.secret

C20_Witness ==
    /\ kind = "Bip39Secret"
    /\ phase = "split"
    /\ params = [n |-> 2, t |-> 1]
    /\ rng.pos = 0
    /\ shares[1].secret = secret
    /\ shares[2].secret = secret

\* main printed the typed mnemonic twice.
C20_WitnessMain ==
    /\ kind = "main"
    /\ operation # <<>>
    /\ operation.name = "split"
    /\ operation.n = 2
    /\ operation.t = 1
    /\ exit = "success"
    /\ stdout[1].mnemonic = operation.secret
    /\ stdout[2].mnemonic = operation.secret

====
